---- MODULE Spec2Model ----
(***************************************************************************)
(* Unit propagation of unyt's __array_function__ handlers                  *)
(* (src/unyt/_array_functions.py).                                         *)
(*                                                                         *)
(* A call is one atomic step: the handler validates units, invokes the     *)
(* numeric kernel, tags the result and possibly mutates the caller's       *)
(* output buffer.  The state records the last call: its inputs, the        *)
(* kernel invocations it made, what it returned or raised, and the output  *)
(* buffer before and after.                                                *)
(*                                                                         *)
(* Numeric kernels are uninterpreted: the data a kernel produces is the    *)
(* term [kernel, args], so that two results are equal exactly when the     *)
(* same kernel ran on the same raw arguments.  Kernels are taken to        *)
(* succeed on the inputs drawn.                                            *)
(***************************************************************************)
EXTENDS Integers, Sequences, FiniteSets, TLC

VARIABLES pc, call, _HANDLED_FUNCTIONS, regLog

vars == <<pc, call, _HANDLED_FUNCTIONS, regLog>>

(***************************************************************************)
(* Bounds of the model.                                                    *)
(***************************************************************************)
\* total number of leaf operands in an operand list (nested or not)
MaxLeaves == 3
\* largest matrix dimension and largest number of stacked matrices (det)
MaxDim == 2
\* number of register() calls followed (SpecRegistry)
MaxRegs == 3

(***************************************************************************)
(* Unit algebra (unyt.unit_object, outside src/): a unit is a dimension    *)
(* vector (length, time exponents) and a decimal scale exponent.           *)
(***************************************************************************)
Unit(l, t, e) == [L |-> l, T |-> t, e10 |-> e]

NULL_UNIT == Unit(0, 0, 0)
meter == Unit(1, 0, 0)
kilometer == Unit(1, 0, 3)
second == Unit(0, 1, 0)

UMul(u, v) == Unit(u.L + v.L, u.T + v.T, u.e10 + v.e10)

UDiv(u, v) == Unit(u.L - v.L, u.T - v.T, u.e10 - v.e10)

UPow(u, n) == Unit(u.L * n, u.T * n, u.e10 * n)

is_dimensionless(u) == u.L = 0 /\ u.T = 0

dimensions(u) == <<u.L, u.T>>

Units == {NULL_UNIT, meter, kilometer, second}

(***************************************************************************)
(* Numbers are decimal magnitudes m * 10^e, so that a conversion between   *)
(* units of different scale is exact.                                      *)
(***************************************************************************)
Mag(m, e) == [m |-> m, e |-> e]

One == Mag(1, 0)

\* q.to(u).value for a quantity of value v in unit `from`
ConvertValue(v, from, u) == Mag(v.m, v.e + from.e10 - u.e10)

(***************************************************************************)
(* Python values.  kind says what the object is:                           *)
(*   "unyt_array"  an ndarray subclass with a units attribute              *)
(*   "ndarray"     a plain ndarray (no units attribute)                    *)
(*   "scalar"      a Python number: no units, no view(), not iterable      *)
(*   "list"        a Python list or tuple of values                        *)
(*   "None"                                                                *)
(* storage names the numeric buffer an array refers to.                    *)
(***************************************************************************)
None == [kind |-> "None"]

Array(k, u, d, st, sh) ==
    [kind |-> k, units |-> u, data |-> d, storage |-> st, shape |-> sh]

unyt_array(res, u) == Array("unyt_array", u, res.data, res.storage, res.shape)

Tagged(u) == Array("unyt_array", u, One, "in", <<2>>)

Bare == Array("ndarray", NULL_UNIT, One, "in", <<2>>)

Scalar == Array("scalar", NULL_UNIT, One, "in", <<>>)

List(items) == [kind |-> "list", items |-> items]

isinstance_ndarray(x) == x.kind \in {"unyt_array", "ndarray"}

hasattr_units(x) == x.kind = "unyt_array"

\* getattr(x, "units", default)
getattr_units(x, default) == IF hasattr_units(x) THEN x.units ELSE default

\* x.view(np.ndarray): the same storage without the units
view(x) == Array("ndarray", NULL_UNIT, x.data, x.storage, x.shape)

hasattr_view(x) == isinstance_ndarray(x)

\* x * u for an array x and a Unit u: a new array in the product unit
TimesUnit(x, u) ==
    Array("unyt_array", UMul(getattr_units(x, NULL_UNIT), u), x.data, "fresh", x.shape)

(***************************************************************************)
(* Kernel invocations.                                                     *)
(***************************************************************************)
KCall(kernel, args, kwargs) == [kernel |-> kernel, args |-> args, kwargs |-> kwargs]

\* what func._implementation(*args) returns when no out= is given
KResult(kernel, args) ==
    Array("ndarray", NULL_UNIT, [kernel |-> kernel, args |-> args], "fresh", <<2>>)

\* the caller's buffer after func._implementation(*args, out=out.view(np.ndarray))
KWrite(out, kernel, args) == [out EXCEPT !.data = [kernel |-> kernel, args |-> args]]

(***************************************************************************)
(* The record of a call.                                                   *)
(***************************************************************************)
NoCall ==
    [op |-> "none", args |-> <<>>, opts |-> {}, out |-> None, outcome |-> "none",
     err |-> <<>>, ret |-> None, kcalls |-> <<>>, outAfter |-> None]

\* what a handler yields: it returned `ret`, after `kcalls`, leaving the buffer `outAfter`
Returns(ret, kcalls, outAfter) ==
    [outcome |-> "ok", err |-> <<>>, ret |-> ret, kcalls |-> kcalls, outAfter |-> outAfter]

\* an exception raised after `kcalls`, the buffer being `outAfter` at that point
Raises(exc, err, kcalls, outAfter) ==
    [outcome |-> exc, err |-> err, ret |-> None, kcalls |-> kcalls, outAfter |-> outAfter]

(***************************************************************************)
(* The registry.                                                           *)
(***************************************************************************)
\* implements with the bug of keeping an entry that is already there
implements_keeps_first(registry, numpy_function, func) ==
    IF \E p \in registry : p[1] = numpy_function THEN registry
    ELSE registry \cup {<<numpy_function, func>>}

\* _HANDLED_FUNCTIONS[numpy_function] = func on a dict kept as a set of <<key, value>>
implements(registry, numpy_function, func) ==
    {p \in registry : p[1] # numpy_function} \cup {<<numpy_function, func>>}

\* the dict after the assignments _HANDLED_FUNCTIONS[key] = func of `decorators`, made in
\* order on an empty dict: for each key, the func assigned to it last
registry_after(decorators) ==
    {decorators[i] : i \in {k \in DOMAIN decorators :
                               \A j \in DOMAIN decorators :
                                   j > k => decorators[j][1] # decorators[k][1]}}

\* numpy_function in _HANDLED_FUNCTIONS and the handler found there
registered(registry, numpy_function) == \E p \in registry : p[1] = numpy_function

lookup(registry, numpy_function) ==
    IF registered(registry, numpy_function)
    THEN (CHOOSE p \in registry : p[1] = numpy_function)[2]
    ELSE "not found"

(***************************************************************************)
(* Homogeneous-units family.                                               *)
(***************************************************************************)
RECURSIVE get_units(_)
RECURSIVE get_units_loop(_, _, _)

\* the body of `for sub in arrays` from its i-th element on, `units` collected so far
get_units_loop(items, i, units) ==
    IF i > Len(items) THEN [ok |-> TRUE, units |-> units]
    ELSE LET sub == items[i] IN
         IF isinstance_ndarray(sub)
         THEN get_units_loop(items, i + 1, Append(units, getattr_units(sub, NULL_UNIT)))
         ELSE LET r == get_units(sub) IN
              IF r.ok THEN get_units_loop(items, i + 1, units \o r.units) ELSE r

\* ok = FALSE: iterating something that is not iterable raised TypeError
get_units(arrays) ==
    IF arrays.kind = "list" THEN get_units_loop(arrays.items, 1, <<>>)
    ELSE [ok |-> FALSE, units |-> <<>>]

_validate_units_consistency(arrays) ==
    LET r == get_units(arrays)
        sunits == {r.units[i] : i \in DOMAIN r.units}
    IN  IF ~r.ok THEN [outcome |-> "TypeError_not_iterable", err |-> <<>>, units |-> NULL_UNIT]
        ELSE IF Cardinality(sunits) = 1
        THEN [outcome |-> "ok", err |-> <<>>, units |-> r.units[1]]
        ELSE [outcome |-> "UnitInconsistencyError", err |-> r.units, units |-> NULL_UNIT]

\* [_.view(np.ndarray) for _ in arrs] succeeds when every element has view()
can_view_all(arrs) == \A i \in DOMAIN arrs.items : hasattr_view(arrs.items[i])

view_all(arrs) == List([i \in DOMAIN arrs.items |-> view(arrs.items[i])])

\* the tail shared by concatenate and stack: kernel with or without out=, then tagging
with_out(kernel, args, kwargs, out, ret_units) ==
    IF out = None
    THEN Returns(unyt_array(KResult(kernel, args), ret_units),
                 <<KCall(kernel, args, kwargs)>>, out)
    ELSE LET written == KWrite(out, kernel, args)
             res == view(written)
             out2 == IF hasattr_units(out) THEN [written EXCEPT !.units = ret_units]
                     ELSE written
         IN  Returns(unyt_array(res, ret_units),
                     <<KCall(kernel, args, kwargs \cup {"out"})>>, out2)

\* np120: NUMPY_VERSION >= Version("1.20")
concatenate(arrs, out, np120) ==
    LET v == _validate_units_consistency(arrs)
        kwargs == IF np120 THEN {"axis", "dtype", "casting"} ELSE {"axis"}
    IN  IF v.outcome # "ok" THEN Raises(v.outcome, v.err, <<>>, out)
        ELSE IF ~can_view_all(arrs) THEN Raises("AttributeError", <<>>, <<>>, out)
        ELSE with_out("np.concatenate", <<view_all(arrs)>>, kwargs, out, v.units)

\* a handler of the form  kernel([_.view(np.ndarray) for _ in tup]) * ret_units
stack_like(kernel, tup) ==
    LET v == _validate_units_consistency(tup)
        args == <<view_all(tup)>>
    IN  IF v.outcome # "ok" THEN Raises(v.outcome, v.err, <<>>, None)
        ELSE IF ~can_view_all(tup) THEN Raises("AttributeError", <<>>, <<>>, None)
        ELSE Returns(TimesUnit(KResult(kernel, args), v.units),
                     <<KCall(kernel, args, {})>>, None)

vstack(tup) == stack_like("np.vstack", tup)

hstack(tup) == stack_like("np.vstack", tup)

dstack(tup) == stack_like("np.dstack", tup)

column_stack(tup) == stack_like("np.column_stack", tup)

\* stack with the bug of running the kernel before the units are validated
stack_kernel_before_validation(arrays, out) ==
    LET v == _validate_units_consistency(arrays)
        args == <<view_all(arrays)>>
        kc == <<KCall("np.stack", args, IF out = None THEN {"axis"} ELSE {"axis", "out"})>>
        written == IF out = None THEN None ELSE KWrite(out, "np.stack", args)
    IN  IF v.outcome = "TypeError_not_iterable" \/ ~can_view_all(arrays)
        THEN Raises("AttributeError", <<>>, <<>>, out)
        ELSE IF v.outcome # "ok" THEN Raises(v.outcome, v.err, kc, written)
        ELSE with_out("np.stack", args, {"axis"}, out, v.units)

stack(arrays, out) ==
    LET v == _validate_units_consistency(arrays)
    IN  IF v.outcome # "ok" THEN Raises(v.outcome, v.err, <<>>, out)
        ELSE IF ~can_view_all(arrays) THEN Raises("AttributeError", <<>>, <<>>, out)
        ELSE IF out = None
        THEN Returns(TimesUnit(KResult("np.stack", <<view_all(arrays)>>), v.units),
                     <<KCall("np.stack", <<view_all(arrays)>>, {"axis"})>>, out)
        ELSE with_out("np.stack", <<view_all(arrays)>>, {"axis"}, out, v.units)

\* the kernel is given the arrays as they are
block(arrays) ==
    LET v == _validate_units_consistency(arrays)
    IN  IF v.outcome # "ok" THEN Raises(v.outcome, v.err, <<>>, None)
        ELSE Returns(TimesUnit(KResult("np.block", <<arrays>>), v.units),
                     <<KCall("np.block", <<arrays>>, {})>>, None)

\* one component of a kernel result that is a tuple
KPart(kernel, args, part) ==
    Array("ndarray", NULL_UNIT, [kernel |-> kernel, args |-> args, part |-> part],
          "fresh", <<2>>)

Tuple(items) == [kind |-> "tuple", items |-> items]

intersect1d(arr1, arr2, return_indices) ==
    LET v == _validate_units_consistency(List(<<arr1, arr2>>))
        args == <<view(arr1), view(arr2)>>
        kc == <<KCall("np.intersect1d", args, {"assume_unique", "return_indices"})>>
    IN  IF v.outcome # "ok" THEN Raises(v.outcome, v.err, <<>>, None)
        ELSE IF ~(hasattr_view(arr1) /\ hasattr_view(arr2))
        THEN Raises("AttributeError", <<>>, <<>>, None)
        ELSE IF return_indices
        THEN Returns(Tuple(<<KPart("np.intersect1d", args, "values"),
                             KPart("np.intersect1d", args, "ind1"),
                             KPart("np.intersect1d", args, "ind2")>>), kc, None)
        ELSE IF ~hasattr_units(arr1) THEN Raises("AttributeError", <<>>, kc, None)
        ELSE Returns(TimesUnit(KResult("np.intersect1d", args), arr1.units), kc, None)

\* a handler of the form  validate((a, b)); kernel(a.view, b.view) * a.units
pair_like(kernel, a, b) ==
    LET v == _validate_units_consistency(List(<<a, b>>))
        args == <<view(a), view(b)>>
        kc == <<KCall(kernel, args, {})>>
    IN  IF v.outcome # "ok" THEN Raises(v.outcome, v.err, <<>>, None)
        ELSE IF ~(hasattr_view(a) /\ hasattr_view(b))
        THEN Raises("AttributeError", <<>>, <<>>, None)
        ELSE IF ~hasattr_units(a) THEN Raises("AttributeError", <<>>, kc, None)
        ELSE Returns(TimesUnit(KResult(kernel, args), a.units), kc, None)

union1d(arr1, arr2) == pair_like("np.union1d", arr1, arr2)

linspace(start, stop) == pair_like("np.linspace", start, stop)

logspace(start, stop) == pair_like("np.logspace", start, stop)

geomspace(start, stop) == pair_like("np.geomspace", start, stop)

(***************************************************************************)
(* Product family.                                                         *)
(***************************************************************************)
\* product_helper with the bug of leaving the units of the output buffer alone
product_helper_keeps_out_units(a, b, out, func) ==
    LET prod_units == UMul(getattr_units(a, NULL_UNIT), getattr_units(b, NULL_UNIT))
        args == <<view(a), view(b)>>
    IN  IF ~(hasattr_view(a) /\ hasattr_view(b))
        THEN Raises("AttributeError", <<>>, <<>>, out)
        ELSE IF out = None
        THEN Returns(TimesUnit(KResult(func, args), prod_units),
                     <<KCall(func, args, {})>>, out)
        ELSE Returns(unyt_array(view(KWrite(out, func, args)), prod_units),
                     <<KCall(func, args, {"out"})>>, KWrite(out, func, args))

product_helper(a, b, out, func) ==
    LET prod_units == UMul(getattr_units(a, NULL_UNIT), getattr_units(b, NULL_UNIT))
        args == <<view(a), view(b)>>
    IN  IF ~(hasattr_view(a) /\ hasattr_view(b))
        THEN Raises("AttributeError", <<>>, <<>>, out)
        ELSE IF out = None
        THEN Returns(TimesUnit(KResult(func, args), prod_units),
                     <<KCall(func, args, {})>>, out)
        ELSE LET written == KWrite(out, func, args)
                 res == view(written)
                 out2 == IF hasattr_units(out) THEN [written EXCEPT !.units = prod_units]
                         ELSE written
             IN  Returns(unyt_array(res, prod_units), <<KCall(func, args, {"out"})>>, out2)

dot(a, b, out) == product_helper(a, b, out, "np.dot")

outer(a, b, out) == product_helper(a, b, out, "np.outer")

\* product_like with the bug of tagging the result with the units of a alone
product_like_units_of_a(kernel, a, b, kwargs) ==
    LET args == <<view(a), view(b)>>
    IN  IF ~(hasattr_view(a) /\ hasattr_view(b))
        THEN Raises("AttributeError", <<>>, <<>>, None)
        ELSE Returns(TimesUnit(KResult(kernel, args), getattr_units(a, NULL_UNIT)),
                     <<KCall(kernel, args, kwargs)>>, None)

\* a handler of the form  kernel(a.view, b.view) * (units of a * units of b)
product_like(kernel, a, b, kwargs) ==
    LET args == <<view(a), view(b)>>
    IN  IF ~(hasattr_view(a) /\ hasattr_view(b))
        THEN Raises("AttributeError", <<>>, <<>>, None)
        ELSE Returns(TimesUnit(KResult(kernel, args),
                               UMul(getattr_units(a, NULL_UNIT), getattr_units(b, NULL_UNIT))),
                     <<KCall(kernel, args, kwargs)>>, None)

vdot(a, b) == product_like("np.vdot", a, b, {})

inner(a, b) == product_like("np.inner", a, b, {})

kron(a, b) == product_like("np.kron", a, b, {})

cross(a, b) == product_like("np.cross", a, b, {"axisa", "axisb", "axisc", "axis"})

(***************************************************************************)
(* Pass-through family.                                                    *)
(***************************************************************************)
around(a, out) ==
    LET args == <<view(a)>>
    IN  IF ~hasattr_units(a) THEN Raises("AttributeError", <<>>, <<>>, out)
        ELSE IF out = None
        THEN Returns(TimesUnit(KResult("np.around", args), a.units),
                     <<KCall("np.around", args, {"decimals"})>>, out)
        ELSE LET written == KWrite(out, "np.around", args)
                 res == view(written)
                 out2 == IF hasattr_units(out) THEN [written EXCEPT !.units = a.units]
                         ELSE written
             IN  Returns(unyt_array(res, a.units),
                         <<KCall("np.around", args, {"decimals", "out"})>>, out2)

\* A handler of the form  kernel(a.view, *args, **kwargs) * ret_units(a.units),
\* given as ret_units = a.units ** power.  An out= buffer travels in kwargs
\* as the object the caller gave; the kernel writes into it and returns it.
\* The kernel is not part of this module: whether it leaves the units of a
\* tagged buffer alone or resets them (kernel_resets) is left open.
kwargs_like(kernel, a, power, out, kernel_resets) ==
    LET args == <<view(a)>>
        kc == <<KCall(kernel, args, IF out = None THEN {} ELSE {"out"})>>
        written == IF out = None THEN None
                   ELSE IF kernel_resets
                   THEN [KWrite(out, kernel, args) EXCEPT !.units = NULL_UNIT]
                   ELSE KWrite(out, kernel, args)
        res == IF out = None THEN KResult(kernel, args) ELSE written
    IN  IF ~hasattr_view(a) THEN Raises("AttributeError", <<>>, <<>>, out)
        ELSE IF ~hasattr_units(a) THEN Raises("AttributeError", <<>>, kc, written)
        ELSE Returns(TimesUnit(res, UPow(a.units, power)), kc, written)

var(a, out, kernel_resets) == kwargs_like("np.var", a, 2, out, kernel_resets)

trace(a, out, kernel_resets) == kwargs_like("np.trace", a, 1, out, kernel_resets)

percentile(a, out, kernel_resets) == kwargs_like("np.percentile", a, 1, out, kernel_resets)

quantile(a, out, kernel_resets) == kwargs_like("np.quantile", a, 1, out, kernel_resets)

nanpercentile(a, out, kernel_resets) ==
    kwargs_like("np.nanpercentile", a, 1, out, kernel_resets)

nanquantile(a, out, kernel_resets) == kwargs_like("np.nanquantile", a, 1, out, kernel_resets)

linalg_det(a) ==
    LET args == <<view(a)>>
        kc == <<KCall("np.linalg.det", args, {})>>
    IN  IF ~hasattr_view(a) THEN Raises("AttributeError", <<>>, <<>>, None)
        ELSE IF ~hasattr_units(a) THEN Raises("AttributeError", <<>>, kc, None)
        ELSE Returns(TimesUnit(KResult("np.linalg.det", args), UPow(a.units, a.shape[1])),
                     kc, None)

(***************************************************************************)
(* Comparison family.                                                      *)
(***************************************************************************)
\* np.array(x) * q for a quantity q of value `factor` in unit u
np_array_times(x, factor, u) ==
    Array("unyt_array", u, Mag(x.data.m * factor.m, x.data.e + factor.e), "fresh", x.shape)

_array_comp_helper(a, b) ==
    LET au == getattr_units(a, NULL_UNIT)
        bu == getattr_units(b, NULL_UNIT)
    IN  IF bu # au /\ au # NULL_UNIT /\ bu # NULL_UNIT
        THEN IF is_dimensionless(UDiv(bu, au))
             THEN [outcome |-> "ok", err |-> <<>>, a |-> a,
                   b |-> np_array_times(b, ConvertValue(One, bu, au), au)]
             ELSE [outcome |-> "UnitConversionError",
                   err |-> <<au, dimensions(au), bu, dimensions(bu)>>, a |-> a, b |-> b]
        ELSE IF bu = NULL_UNIT
        THEN [outcome |-> "ok", err |-> <<>>, a |-> a, b |-> np_array_times(b, One, au)]
        ELSE IF au = NULL_UNIT
        THEN [outcome |-> "ok", err |-> <<>>, a |-> np_array_times(a, One, bu), b |-> b]
        ELSE [outcome |-> "ok", err |-> <<>>, a |-> a, b |-> b]

\* a handler of the form  a, b = _array_comp_helper(a, b); kernel(a.view, b.view)
comp_like(kernel, a, b) ==
    LET h == _array_comp_helper(a, b)
        args == <<view(h.a), view(h.b)>>
    IN  IF h.outcome # "ok" THEN Raises(h.outcome, h.err, <<>>, None)
        ELSE IF ~(hasattr_view(h.a) /\ hasattr_view(h.b))
        THEN Raises("AttributeError", <<>>, <<>>, None)
        ELSE Returns(KResult(kernel, args), <<KCall(kernel, args, {})>>, None)

isclose(a, b) == comp_like("np.isclose", a, b)

allclose(a, b) == comp_like("np.allclose", a, b)

(***************************************************************************)
(* Range-bounded binning family.                                           *)
(***************************************************************************)
\* a unyt_quantity: a 0-d unyt_array
Quantity(v, u) == Array("unyt_array", u, v, "in", <<>>)

\* seq[lo : hi] of Python, lo and hi counted from 0
Slice(seq, lo, hi) ==
    LET last == IF hi < Len(seq) THEN hi ELSE Len(seq)
    IN  IF lo >= last THEN <<>> ELSE [k \in 1..(last - lo) |-> seq[lo + k]]

\* q.to(u) succeeds when q's unit and u have the same dimensions
can_convert(q, u) == dimensions(q.units) = dimensions(u)

RECURSIVE _sanitize_range_loop(_, _, _, _)

\* the body of `for i in range(ndim)` from i on, new_range[0..i-1] being filled
_sanitize_range_loop(_range, units, i, new_range) ==
    IF i >= Len(units) THEN [outcome |-> "ok", range |-> new_range]
    ELSE LET ilim == Slice(_range.items, 2 * i, 2 * (i + 1)) IN
         IF Len(ilim) # 2 THEN [outcome |-> "ValueError", range |-> None]
         ELSE LET imin == ilim[1]
                  imax == ilim[2]
              IN  IF ~(hasattr_units(imin) /\ hasattr_units(imax))
                  THEN [outcome |-> "TypeError_missing_units", range |-> None]
                  ELSE IF ~(can_convert(imin, units[i + 1]) /\ can_convert(imax, units[i + 1]))
                  THEN [outcome |-> "UnitConversionError", range |-> None]
                  ELSE IF imin.shape # <<>> \/ imax.shape # <<>>
                  THEN [outcome |-> "ValueError", range |-> None]
                  ELSE _sanitize_range_loop(_range, units, i + 1,
                           Append(new_range,
                                  <<ConvertValue(imin.data, imin.units, units[i + 1]),
                                    ConvertValue(imax.data, imax.units, units[i + 1])>>))

\* new_range.squeeze(): a (1, 2) array becomes a (2,) array
squeeze(new_range) == IF Len(new_range) = 1 THEN new_range[1] ELSE new_range

_sanitize_range(_range, units) ==
    IF _range = None THEN [outcome |-> "ok", range |-> None]
    ELSE LET r == _sanitize_range_loop(_range, units, 0, <<>>)
         IN  IF r.outcome = "ok" THEN [outcome |-> "ok", range |-> List(squeeze(r.range))]
             ELSE r

histogram(a, range) ==
    IF ~hasattr_units(a) THEN Raises("AttributeError", <<>>, <<>>, None)
    ELSE LET r == _sanitize_range(range, <<a.units>>)
             args == <<view(a), r.range>>
         IN  IF r.outcome # "ok" THEN Raises(r.outcome, <<>>, <<>>, None)
             ELSE Returns(Tuple(<<KPart("np.histogram", args, "counts"),
                                  TimesUnit(KPart("np.histogram", args, "bins"), a.units)>>),
                          <<KCall("np.histogram", args, {})>>, None)

histogram2d(x, y, range) ==
    IF ~(hasattr_units(x) /\ hasattr_units(y)) THEN Raises("AttributeError", <<>>, <<>>, None)
    ELSE LET r == _sanitize_range(range, <<x.units, y.units>>)
             args == <<view(x), view(y), r.range>>
         IN  IF r.outcome # "ok" THEN Raises(r.outcome, <<>>, <<>>, None)
             ELSE Returns(Tuple(<<KPart("np.histogram2d", args, "counts"),
                                  TimesUnit(KPart("np.histogram2d", args, "xbins"), x.units),
                                  TimesUnit(KPart("np.histogram2d", args, "ybins"), y.units)>>),
                          <<KCall("np.histogram2d", args, {})>>, None)

\* sample is a sequence of D arrays; the kernel returns one edge array per dimension
histogramdd(sample, range) ==
    IF \E i \in DOMAIN sample.items : ~hasattr_units(sample.items[i])
    THEN Raises("AttributeError", <<>>, <<>>, None)
    ELSE LET units == [i \in DOMAIN sample.items |-> sample.items[i].units]
             r == _sanitize_range(range, units)
             args == <<view_all(sample), r.range>>
         IN  IF r.outcome # "ok" THEN Raises(r.outcome, <<>>, <<>>, None)
             ELSE Returns(Tuple(<<KPart("np.histogramdd", args, "counts"),
                                  Tuple([i \in DOMAIN units |->
                                            TimesUnit(KPart("np.histogramdd", args, ToString(i)),
                                                      units[i])])>>),
                          <<KCall("np.histogramdd", args, {})>>, None)

(***************************************************************************)
(* The calls drawn.                                                        *)
(***************************************************************************)
\* operands of the homogeneous family: arrays with and without units, a number
Leaves == {Tagged(u) : u \in {NULL_UNIT, meter, second}} \cup {Bare, Scalar}

RECURSIVE LeafSeqs(_)
\* the sequences of exactly k leaves
LeafSeqs(k) ==
    IF k = 0 THEN {<<>>}
    ELSE {<<l>> \o rest : l \in Leaves, rest \in LeafSeqs(k - 1)}

\* the elements of an operand list that hold exactly k leaves: a leaf, or a list of leaves
ItemsWith(k) == (IF k = 1 THEN Leaves ELSE {}) \cup {List(ls) : ls \in LeafSeqs(k)}

RECURSIVE SeqsWith(_)
\* the sequences of elements that hold exactly k leaves in all
SeqsWith(k) ==
    IF k = 0 THEN {<<>>}
    ELSE UNION {{<<it>> \o rest : it \in ItemsWith(j), rest \in SeqsWith(k - j)} : j \in 1..k}

RECURSIVE HasTagged(_)
\* numpy hands a call to these handlers when an argument is a unyt_array
HasTagged(x) ==
    IF x.kind = "list" THEN \E i \in DOMAIN x.items : HasTagged(x.items[i])
    ELSE x.kind = "unyt_array"

OperandLists ==
    {l \in {List(items) : items \in UNION {SeqsWith(k) : k \in 1..MaxLeaves}} : HasTagged(l)}

\* operands of the binary handlers
Operands == {Tagged(u) : u \in Units} \cup {Bare, Scalar}

\* a caller's output buffer: none, a plain ndarray, a unyt_array in some unit
OldData == [kernel |-> "none", args |-> <<>>]

OutBuffer(k, u) == Array(k, u, OldData, "out", <<2>>)

Outs == {None, OutBuffer("ndarray", NULL_UNIT)} \cup {OutBuffer("unyt_array", u) : u \in Units}

\* square matrices and stacks of square matrices
MatrixShapes ==
    {<<n, n>> : n \in 1..MaxDim} \cup {<<k, n, n>> : k \in 1..MaxDim, n \in 1..MaxDim}

Matrices ==
    {Array("unyt_array", u, One, "in", sh) : u \in {meter, second}, sh \in MatrixShapes}
      \cup {Array("ndarray", NULL_UNIT, One, "in", sh) : sh \in MatrixShapes}

\* range bounds: quantities, and plain numbers
Bounds == {Quantity(One, u) : u \in {meter, kilometer, second}} \cup {Scalar}

Pairs == {<<lo, hi>> : lo \in Bounds, hi \in Bounds}

\* range for D dimensions: none, one (min, max) pair per dimension, or all bounds in a row
Ranges1 == {None} \cup {List(p) : p \in Pairs}

Ranges2 ==
    {None} \cup {List(<<List(p), List(q)>>) : p \in Pairs, q \in Pairs}
           \cup {List(p \o q) : p \in Pairs, q \in Pairs}

Samples == {Tagged(u) : u \in {meter, second}} \cup {Bare}

Ranges(D) == IF D = 1 THEN Ranges1 ELSE Ranges2

(***************************************************************************)
(* State machine.                                                          *)
(***************************************************************************)
\* the @implements decorations, in the order the module runs them
Decorators ==
    << <<"np.array2string", "array2string">>, <<"np.dot", "dot">>, <<"np.vdot", "vdot">>,
       <<"np.inner", "inner">>, <<"np.outer", "outer">>, <<"np.kron", "kron">>,
       <<"np.linalg.inv", "linalg_inv">>, <<"np.linalg.tensorinv", "linalg_tensorinv">>,
       <<"np.linalg.pinv", "linalg_pinv">>, <<"np.histogram", "histogram">>,
       <<"np.histogram2d", "histogram2d">>, <<"np.histogramdd", "histogramdd">>,
       <<"np.concatenate", "concatenate">>, <<"np.cross", "cross">>,
       <<"np.intersect1d", "intersect1d">>, <<"np.union1d", "union1d">>,
       <<"np.linalg.norm", "norm">>, <<"np.vstack", "vstack">>, <<"np.hstack", "hstack">>,
       <<"np.dstack", "dstack">>, <<"np.column_stack", "column_stack">>,
       <<"np.stack", "stack">>, <<"np.around", "around">>, <<"np.asfarray", "asfarray">>,
       <<"np.block", "block">>, <<"np.fft.fft", "ftt_fft">>, <<"np.fft.fft2", "ftt_fft2">>,
       <<"np.fft.fftn", "ftt_fftn">>, <<"np.fft.hfft", "ftt_hfft">>,
       <<"np.fft.rfft", "ftt_rfft">>, <<"np.fft.rfft2", "ftt_rfft2">>,
       <<"np.fft.rfftn", "ftt_rfftn">>, <<"np.fft.ifft", "ftt_ifft">>,
       <<"np.fft.ifft2", "ftt_ifft2">>, <<"np.fft.ifftn", "ftt_ifftn">>,
       <<"np.fft.ihfft", "ftt_ihfft">>, <<"np.fft.irfft", "ftt_irfft">>,
       <<"np.fft.irfft2", "ftt_irfft2">>, <<"np.fft.irfftn", "ftt_irfftn">>,
       <<"np.fft.fftshift", "fft_fftshift">>, <<"np.fft.ifftshift", "fft_ifftshift">>,
       <<"np.trapz", "trapz">>, <<"np.sort_complex", "sort_complex">>,
       <<"np.isclose", "isclose">>, <<"np.allclose", "allclose">>,
       <<"np.linspace", "linspace">>, <<"np.logspace", "logspace">>,
       <<"np.geomspace", "geomspace">>, <<"np.copyto", "copyto">>, <<"np.prod", "prod">>,
       <<"np.var", "var">>, <<"np.trace", "trace">>, <<"np.percentile", "percentile">>,
       <<"np.quantile", "quantile">>, <<"np.nanpercentile", "nanpercentile">>,
       <<"np.nanquantile", "nanquantile">>, <<"np.linalg.det", "linalg_det">>,
       <<"np.linalg.lstsq", "linalg_lstsq">>, <<"np.linalg.solve", "linalg_solve">>,
       <<"np.linalg.tensorsolve", "linalg_tensorsolve">>,
       <<"np.linalg.eig", "linalg_eig">>, <<"np.linalg.eigh", "linalg_eigh">>,
       <<"np.linalg.eigvals", "linalg_eigvals">>,
       <<"np.linalg.eigvalsh", "linalg_eigvalsh">> >>

Init ==
    /\ pc = "idle"
    /\ call = NoCall
    /\ _HANDLED_FUNCTIONS = registry_after(Decorators)
    /\ regLog = Decorators

\* numpy's dispatch: the handler registered for numpy_function runs, with the call's arguments
Dispatch(numpy_function, func, args, opts, out, r) ==
    /\ lookup(_HANDLED_FUNCTIONS, numpy_function) = func
    /\ pc' = "returned"
    /\ call' = [op |-> func, args |-> args, opts |-> opts, out |-> out,
                outcome |-> r.outcome, err |-> r.err, ret |-> r.ret, kcalls |-> r.kcalls,
                outAfter |-> r.outAfter]
    /\ UNCHANGED <<_HANDLED_FUNCTIONS, regLog>>

\* the caller takes the result
Return ==
    /\ pc = "returned"
    /\ pc' = "idle"
    /\ call' = NoCall
    /\ UNCHANGED <<_HANDLED_FUNCTIONS, regLog>>

(***************************************************************************)
(* One action per handler.                                                 *)
(***************************************************************************)
Call_concatenate ==
    /\ pc = "idle"
    /\ \E arrs \in OperandLists, out \in Outs, np120 \in BOOLEAN :
        /\ Dispatch("np.concatenate", "concatenate", <<arrs>>, IF np120 THEN {"np120"} ELSE {}, out, concatenate(arrs, out, np120))

Call_stack ==
    /\ pc = "idle"
    /\ \E arrays \in OperandLists, out \in Outs :
        /\ Dispatch("np.stack", "stack", <<arrays>>, {}, out, stack(arrays, out))

Call_vstack ==
    /\ pc = "idle"
    /\ \E tup \in OperandLists :
        /\ Dispatch("np.vstack", "vstack", <<tup>>, {}, None, vstack(tup))

Call_hstack ==
    /\ pc = "idle"
    /\ \E tup \in OperandLists :
        /\ Dispatch("np.hstack", "hstack", <<tup>>, {}, None, hstack(tup))

Call_dstack ==
    /\ pc = "idle"
    /\ \E tup \in OperandLists :
        /\ Dispatch("np.dstack", "dstack", <<tup>>, {}, None, dstack(tup))

Call_column_stack ==
    /\ pc = "idle"
    /\ \E tup \in OperandLists :
        /\ Dispatch("np.column_stack", "column_stack", <<tup>>, {}, None, column_stack(tup))

Call_block ==
    /\ pc = "idle"
    /\ \E tup \in OperandLists :
        /\ Dispatch("np.block", "block", <<tup>>, {}, None, block(tup))

Call_intersect1d ==
    /\ pc = "idle"
    /\ \E arr1 \in Operands, arr2 \in Operands, return_indices \in BOOLEAN :
        /\ HasTagged(arr1) \/ HasTagged(arr2)
        /\ Dispatch("np.intersect1d", "intersect1d", <<arr1, arr2>>, IF return_indices THEN {"return_indices"} ELSE {}, None, intersect1d(arr1, arr2, return_indices))

Call_union1d ==
    /\ pc = "idle"
    /\ \E a \in Operands, b \in Operands :
        /\ HasTagged(a) \/ HasTagged(b)
        /\ Dispatch("np.union1d", "union1d", <<a, b>>, {}, None, union1d(a, b))

Call_linspace ==
    /\ pc = "idle"
    /\ \E a \in Operands, b \in Operands :
        /\ HasTagged(a) \/ HasTagged(b)
        /\ Dispatch("np.linspace", "linspace", <<a, b>>, {}, None, linspace(a, b))

Call_logspace ==
    /\ pc = "idle"
    /\ \E a \in Operands, b \in Operands :
        /\ HasTagged(a) \/ HasTagged(b)
        /\ Dispatch("np.logspace", "logspace", <<a, b>>, {}, None, logspace(a, b))

Call_geomspace ==
    /\ pc = "idle"
    /\ \E a \in Operands, b \in Operands :
        /\ HasTagged(a) \/ HasTagged(b)
        /\ Dispatch("np.geomspace", "geomspace", <<a, b>>, {}, None, geomspace(a, b))

Call_vdot ==
    /\ pc = "idle"
    /\ \E a \in Operands, b \in Operands :
        /\ HasTagged(a) \/ HasTagged(b)
        /\ Dispatch("np.vdot", "vdot", <<a, b>>, {}, None, vdot(a, b))

Call_inner ==
    /\ pc = "idle"
    /\ \E a \in Operands, b \in Operands :
        /\ HasTagged(a) \/ HasTagged(b)
        /\ Dispatch("np.inner", "inner", <<a, b>>, {}, None, inner(a, b))

Call_kron ==
    /\ pc = "idle"
    /\ \E a \in Operands, b \in Operands :
        /\ HasTagged(a) \/ HasTagged(b)
        /\ Dispatch("np.kron", "kron", <<a, b>>, {}, None, kron(a, b))

Call_cross ==
    /\ pc = "idle"
    /\ \E a \in Operands, b \in Operands :
        /\ HasTagged(a) \/ HasTagged(b)
        /\ Dispatch("np.cross", "cross", <<a, b>>, {}, None, cross(a, b))

Call_isclose ==
    /\ pc = "idle"
    /\ \E a \in Operands, b \in Operands :
        /\ HasTagged(a) \/ HasTagged(b)
        /\ Dispatch("np.isclose", "isclose", <<a, b>>, {}, None, isclose(a, b))

Call_allclose ==
    /\ pc = "idle"
    /\ \E a \in Operands, b \in Operands :
        /\ HasTagged(a) \/ HasTagged(b)
        /\ Dispatch("np.allclose", "allclose", <<a, b>>, {}, None, allclose(a, b))

Call_dot ==
    /\ pc = "idle"
    /\ \E a \in Operands, b \in Operands, out \in Outs :
        /\ HasTagged(a) \/ HasTagged(b) \/ HasTagged(out)
        /\ Dispatch("np.dot", "dot", <<a, b>>, {}, out, dot(a, b, out))

Call_outer ==
    /\ pc = "idle"
    /\ \E a \in Operands, b \in Operands, out \in Outs :
        /\ HasTagged(a) \/ HasTagged(b) \/ HasTagged(out)
        /\ Dispatch("np.outer", "outer", <<a, b>>, {}, out, outer(a, b, out))

Call_around ==
    /\ pc = "idle"
    /\ \E a \in Operands, out \in Outs :
        /\ HasTagged(a) \/ HasTagged(out)
        /\ Dispatch("np.around", "around", <<a>>, {}, out, around(a, out))

Call_var ==
    /\ pc = "idle"
    /\ \E a \in Operands, out \in Outs, kernel_resets \in BOOLEAN :
        /\ (HasTagged(a) \/ HasTagged(out)) /\ (kernel_resets => HasTagged(out))
        /\ Dispatch("np.var", "var", <<a>>, IF kernel_resets THEN {"kernel_resets"} ELSE {}, out, var(a, out, kernel_resets))

Call_trace ==
    /\ pc = "idle"
    /\ \E a \in Operands, out \in Outs, kernel_resets \in BOOLEAN :
        /\ (HasTagged(a) \/ HasTagged(out)) /\ (kernel_resets => HasTagged(out))
        /\ Dispatch("np.trace", "trace", <<a>>, IF kernel_resets THEN {"kernel_resets"} ELSE {}, out, trace(a, out, kernel_resets))

Call_percentile ==
    /\ pc = "idle"
    /\ \E a \in Operands, out \in Outs, kernel_resets \in BOOLEAN :
        /\ (HasTagged(a) \/ HasTagged(out)) /\ (kernel_resets => HasTagged(out))
        /\ Dispatch("np.percentile", "percentile", <<a>>, IF kernel_resets THEN {"kernel_resets"} ELSE {}, out, percentile(a, out, kernel_resets))

Call_quantile ==
    /\ pc = "idle"
    /\ \E a \in Operands, out \in Outs, kernel_resets \in BOOLEAN :
        /\ (HasTagged(a) \/ HasTagged(out)) /\ (kernel_resets => HasTagged(out))
        /\ Dispatch("np.quantile", "quantile", <<a>>, IF kernel_resets THEN {"kernel_resets"} ELSE {}, out, quantile(a, out, kernel_resets))

Call_nanpercentile ==
    /\ pc = "idle"
    /\ \E a \in Operands, out \in Outs, kernel_resets \in BOOLEAN :
        /\ (HasTagged(a) \/ HasTagged(out)) /\ (kernel_resets => HasTagged(out))
        /\ Dispatch("np.nanpercentile", "nanpercentile", <<a>>, IF kernel_resets THEN {"kernel_resets"} ELSE {}, out, nanpercentile(a, out, kernel_resets))

Call_nanquantile ==
    /\ pc = "idle"
    /\ \E a \in Operands, out \in Outs, kernel_resets \in BOOLEAN :
        /\ (HasTagged(a) \/ HasTagged(out)) /\ (kernel_resets => HasTagged(out))
        /\ Dispatch("np.nanquantile", "nanquantile", <<a>>, IF kernel_resets THEN {"kernel_resets"} ELSE {}, out, nanquantile(a, out, kernel_resets))

Call_linalg_det ==
    /\ pc = "idle"
    /\ \E a \in Matrices :
        /\ HasTagged(a)
        /\ Dispatch("np.linalg.det", "linalg_det", <<a>>, {}, None, linalg_det(a))

Call_histogram ==
    /\ pc = "idle"
    /\ \E a \in Samples, range \in Ranges(1) :
        /\ HasTagged(a)
        /\ Dispatch("np.histogram", "histogram", <<a, range>>, {}, None, histogram(a, range))

Call_histogram2d ==
    /\ pc = "idle"
    /\ \E x \in Samples, y \in Samples, range \in Ranges(2) :
        /\ HasTagged(x) \/ HasTagged(y)
        /\ Dispatch("np.histogram2d", "histogram2d", <<x, y, range>>, {}, None, histogram2d(x, y, range))

\* a sample of D dimensions given as a sequence of D arrays
SampleLists ==
    {List(<<x>>) : x \in Samples \ {Bare}}
      \cup {List(<<x, y>>) : x \in Samples \ {Bare}, y \in Samples \ {Bare}}

Call_histogramdd ==
    /\ pc = "idle"
    /\ \E sample \in SampleLists :
        \E range \in Ranges(Len(sample.items)) :
            Dispatch("np.histogramdd", "histogramdd", <<sample, range>>, {}, None,
                     histogramdd(sample, range))

Next ==
    \/ Call_concatenate \/ Call_stack \/ Call_vstack \/ Call_hstack \/ Call_dstack
    \/ Call_column_stack \/ Call_block \/ Call_intersect1d \/ Call_union1d
    \/ Call_linspace \/ Call_logspace \/ Call_geomspace
    \/ Call_dot \/ Call_vdot \/ Call_inner \/ Call_outer \/ Call_kron \/ Call_cross
    \/ Call_around \/ Call_var \/ Call_trace \/ Call_percentile \/ Call_quantile
    \/ Call_nanpercentile \/ Call_nanquantile \/ Call_linalg_det
    \/ Call_isclose \/ Call_allclose
    \/ Call_histogram \/ Call_histogram2d \/ Call_histogramdd
    \/ Return

Spec == Init /\ [][Next]_vars

(***************************************************************************)
(* The registry while the module is loaded: it starts empty and every      *)
(* @implements(numpy_function) applied to func stores one entry.           *)
(***************************************************************************)
RegKeys == {"np.dot", "np.hstack", "np.vstack"}

RegHandlers == {"dot", "hstack", "vstack"}

InitRegistry ==
    /\ pc = "idle"
    /\ call = NoCall
    /\ _HANDLED_FUNCTIONS = {}
    /\ regLog = <<>>

Register ==
    \E numpy_function \in RegKeys, func \in RegHandlers :
        /\ Len(regLog) < MaxRegs
        /\ _HANDLED_FUNCTIONS' = implements(_HANDLED_FUNCTIONS, numpy_function, func)
        /\ regLog' = Append(regLog, <<numpy_function, func>>)
        /\ UNCHANGED <<pc, call>>

NextRegistry == Register

SpecRegistry == InitRegistry /\ [][NextRegistry]_vars

(***************************************************************************)
(* Properties.                                                             *)
(***************************************************************************)
Done == pc = "returned"

HomogeneousOps ==
    {"concatenate", "stack", "vstack", "hstack", "dstack", "column_stack", "block",
     "intersect1d", "union1d", "linspace", "logspace", "geomspace"}

ProductOps == {"dot", "vdot", "inner", "outer", "kron", "cross"}

UnitLayerErrors == {"UnitInconsistencyError", "UnitConversionError", "TypeError_missing_units"}

\* the unit of an operand, an operand without units counting as NULL_UNIT
UnitOf(x) == IF x.kind = "unyt_array" THEN x.units ELSE NULL_UNIT

\* the units of the operands of an operand list (the lists drawn nest once)
UnitsOfItem(item) ==
    IF item.kind = "list" THEN {UnitOf(item.items[j]) : j \in DOMAIN item.items}
    ELSE {UnitOf(item)}

UnitsIn(x) == UNION {UnitsOfItem(x.items[i]) : i \in DOMAIN x.items}

\* the operands of a call of the homogeneous family, as one list
OperandsOf(c) == IF Len(c.args) = 1 THEN c.args[1] ELSE List(c.args)

SeqRange(seq) == {seq[i] : i \in DOMAIN seq}

\* C1: in the homogeneous family, operands of more than one distinct unit (an
\* operand without units counting as NULL_UNIT) make the call fail with
\* UnitInconsistencyError, and the error carries every distinct unit found.
C1_MixedUnitsRaiseInconsistency ==
    (Done /\ call.op \in HomogeneousOps /\ Cardinality(UnitsIn(OperandsOf(call))) > 1)
        => /\ call.outcome = "UnitInconsistencyError"
           /\ UnitsIn(OperandsOf(call)) \subseteq SeqRange(call.err)

\* the array of values a call returned: the first component of a tuple result
ValuesOf(ret) == IF ret.kind = "tuple" THEN ret.items[1] ELSE ret

\* C2: in the homogeneous family, when the operands have exactly one distinct
\* unit U and the call returns, the returned array of values carries U and a
\* unit-tagged output buffer has its units set to U.
C2_SingleUnitReattached ==
    (Done /\ call.op \in HomogeneousOps /\ call.outcome = "ok"
          /\ Cardinality(UnitsIn(OperandsOf(call))) = 1)
        => \A U \in UnitsIn(OperandsOf(call)) :
              /\ ValuesOf(call.ret).kind = "unyt_array"
              /\ ValuesOf(call.ret).units = U
              /\ (call.out.kind = "unyt_array" => call.outAfter.units = U)

\* C3: a call that raises a unit-layer error has not invoked the kernel and has
\* left the caller's output buffer, units and contents, as it was.
C3_UnitErrorsBeforeKernel ==
    (Done /\ call.outcome \in UnitLayerErrors)
        => call.kcalls = <<>> /\ call.outAfter = call.out

C3_Witness ==
    /\ Done /\ call.op = "stack" /\ call.outcome = "UnitInconsistencyError"
    /\ call.out.kind = "unyt_array" /\ call.out.units = second

\* C4: a binary product never raises a unit error, and what it returns carries
\* unit(a) * unit(b), an operand without units counting as NULL_UNIT.
C4_ProductUnits ==
    (Done /\ call.op \in ProductOps)
        => /\ call.outcome \notin UnitLayerErrors
           /\ call.outcome = "ok" =>
                 /\ call.ret.kind = "unyt_array"
                 /\ call.ret.units = UMul(UnitOf(call.args[1]), UnitOf(call.args[2]))

C4_Witness ==
    /\ Done /\ call.op = "cross" /\ call.outcome = "ok"
    /\ call.args[1].kind = "ndarray" /\ call.args[2] = Tagged(second)
    /\ call.ret.units = second

\* C5: dot and outer given a unit-tagged output buffer set the buffer's units to
\* unit(a) * unit(b) whatever they were, the kernel's result is in the buffer, and
\* the returned value has the buffer's units and refers to the buffer's storage.
C5_ProductOutBuffer ==
    (Done /\ call.op \in {"dot", "outer"} /\ call.outcome = "ok"
          /\ call.out.kind = "unyt_array")
        => /\ call.outAfter.units = UMul(UnitOf(call.args[1]), UnitOf(call.args[2]))
           /\ call.outAfter.data =
                 [kernel |-> IF call.op = "dot" THEN "np.dot" ELSE "np.outer",
                  args |-> <<view(call.args[1]), view(call.args[2])>>]
           /\ call.ret.kind = "unyt_array"
           /\ call.ret.units = call.outAfter.units
           /\ call.ret.storage = call.outAfter.storage
           /\ call.ret.data = call.outAfter.data

C5_Witness ==
    /\ Done /\ call.op = "outer" /\ call.outcome = "ok"
    /\ call.out.kind = "unyt_array" /\ call.out.units = second
    /\ call.args = <<Tagged(meter), Tagged(kilometer)>>
    /\ call.outAfter.units = UMul(meter, kilometer)

PassThroughOutOps ==
    {"around", "var", "trace", "percentile", "quantile", "nanpercentile", "nanquantile"}

\* C6: a pass-through operation given a unit-tagged output buffer sets the buffer's
\* units to the derived unit (the input's unit, its square for var), and what it
\* returns carries that unit.
C6_PassThroughOutBuffer ==
    (Done /\ call.op \in PassThroughOutOps /\ call.outcome = "ok"
          /\ call.out.kind = "unyt_array")
        => LET derived == UPow(call.args[1].units, IF call.op = "var" THEN 2 ELSE 1)
           IN  /\ call.outAfter.units = derived
               /\ call.ret.kind = "unyt_array"
               /\ call.ret.units = derived

\* the raw value kx is the operand x expressed in the unit cu: the same quantity
\* when x has units, the same number when x is bare
ExpressedIn(x, kx, cu) ==
    IF x.kind = "unyt_array"
    THEN /\ dimensions(x.units) = dimensions(cu)
         /\ kx.data.m = x.data.m
         /\ kx.data.e + cu.e10 = x.data.e + x.units.e10
    ELSE kx.data = x.data

\* C7: isclose and allclose raise UnitConversionError, with both units and both
\* dimensions, exactly when both operands have units and the units are not
\* compatible; otherwise the kernel compares the two values in one common unit.
C7_ComparisonUnits ==
    (Done /\ call.op \in {"isclose", "allclose"})
        => LET a == call.args[1]
               b == call.args[2]
               incompatible == /\ a.kind = "unyt_array" /\ b.kind = "unyt_array"
                               /\ ~is_dimensionless(UDiv(b.units, a.units))
           IN  /\ call.outcome = "UnitConversionError" <=> incompatible
               /\ call.outcome = "UnitConversionError" =>
                     call.err = <<a.units, dimensions(a.units), b.units, dimensions(b.units)>>
               /\ call.outcome # "UnitConversionError" =>
                     /\ Len(call.kcalls) = 1
                     /\ \E cu \in Units :
                           /\ ExpressedIn(a, call.kcalls[1].args[1], cu)
                           /\ ExpressedIn(b, call.kcalls[1].args[2], cu)

\* C8: det returns unit(a) ** n, n being the dimension of the square matrices
\* (the last axis of a), for one matrix and for a stack of matrices.
C8_DeterminantUnits ==
    (Done /\ call.op = "linalg_det" /\ call.outcome = "ok")
        => LET a == call.args[1]
           IN  call.ret.units = UPow(a.units, a.shape[Len(a.shape)])

HistogramOps == {"histogram", "histogram2d", "histogramdd"}

\* the sample arrays of a histogram call, one per dimension
SamplesOf(c) ==
    IF c.op = "histogram" THEN <<c.args[1]>>
    ELSE IF c.op = "histogram2d" THEN <<c.args[1], c.args[2]>>
    ELSE c.args[1].items

RangeOf(c) == c.args[Len(c.args)]

\* range is one (min, max) pair per dimension, as the kernel takes it
KernelForm(range, D) ==
    /\ range # None
    /\ IF D = 1
       THEN Len(range.items) = 2 /\ \A i \in 1..2 : range.items[i].kind # "list"
       ELSE /\ Len(range.items) = D
            /\ \A i \in 1..D : range.items[i].kind = "list" /\ Len(range.items[i].items) = 2

PairsOf(range, D) ==
    IF D = 1 THEN <<range.items>> ELSE [i \in 1..D |-> range.items[i].items]

\* the bin edges returned for dimension i
EdgesOf(c, i) ==
    IF c.op = "histogramdd" THEN c.ret.items[2].items[i] ELSE c.ret.items[i + 1]

\* C9: a histogram call whose range is given as one (min, max) pair per dimension
\* hands the kernel the bounds of each dimension converted to the unit of that
\* dimension's sample and returns edges in that unit when every bound has units,
\* raises the missing-units error when a bound has none, and hands the kernel no
\* range when none is given.
C9_HistogramRange ==
    (Done /\ call.op \in HistogramOps
          /\ \A i \in DOMAIN SamplesOf(call) : SamplesOf(call)[i].kind = "unyt_array")
        => LET smp == SamplesOf(call)
               D == Len(smp)
               range == RangeOf(call)
               prs == PairsOf(range, D)
               tagged == \A i \in 1..D : \A k \in 1..2 : prs[i][k].kind = "unyt_array"
               compatible ==
                   \A i \in 1..D : \A k \in 1..2 :
                       dimensions(prs[i][k].units) = dimensions(smp[i].units)
               converted ==
                   [i \in 1..D |->
                       <<ConvertValue(prs[i][1].data, prs[i][1].units, smp[i].units),
                         ConvertValue(prs[i][2].data, prs[i][2].units, smp[i].units)>>]
               passed == call.kcalls[1].args[Len(call.kcalls[1].args)]
           IN  /\ range = None => (call.outcome = "ok" /\ passed = None)
               /\ (KernelForm(range, D) /\ ~tagged) =>
                     call.outcome = "TypeError_missing_units"
               /\ (KernelForm(range, D) /\ tagged /\ compatible) =>
                     /\ call.outcome = "ok"
                     /\ passed = List(IF D = 1 THEN converted[1] ELSE converted)
                     /\ \A i \in 1..D :
                           /\ EdgesOf(call, i).kind = "unyt_array"
                           /\ EdgesOf(call, i).units = smp[i].units

\* the positions of regLog at which numpy_function was registered
RegistrationsOf(numpy_function) ==
    {i \in DOMAIN regLog : regLog[i][1] = numpy_function}

Latest(S) == CHOOSE i \in S : \A j \in S : j <= i

\* C10: after any sequence of registrations the registry holds, for each
\* identifier registered, exactly one handler, that of its latest registration,
\* and nothing for an identifier never registered, whose lookup is "not found".
C10_LastRegistrationWins ==
    \A f \in RegKeys :
        LET entries == {p \in _HANDLED_FUNCTIONS : p[1] = f}
        IN  IF RegistrationsOf(f) = {}
            THEN entries = {} /\ lookup(_HANDLED_FUNCTIONS, f) = "not found"
            ELSE /\ entries = {<<f, regLog[Latest(RegistrationsOf(f))][2]>>}
                 /\ lookup(_HANDLED_FUNCTIONS, f) = regLog[Latest(RegistrationsOf(f))][2]

C10_Witness ==
    /\ Len(regLog) = 3
    /\ regLog[1] = <<"np.hstack", "vstack">>
    /\ regLog[2] = <<"np.dot", "dot">>
    /\ regLog[3] = <<"np.hstack", "hstack">>
    /\ _HANDLED_FUNCTIONS = {<<"np.dot", "dot">>, <<"np.hstack", "hstack">>}

\* C11: the handler registered under an operation identifier invokes the numeric
\* kernel of that same operation and of no other: every kernel call made during
\* a call names the identifier under which the called handler is registered.
C11_HandlerInvokesOwnKernel ==
    Done => \A i \in DOMAIN call.kcalls :
                lookup(_HANDLED_FUNCTIONS, call.kcalls[i].kernel) = call.op

====
